---- MODULE Spec2Model ----
(***************************************************************************)
(* Agent execution loop and tool dispatch of the miniminds agent framework *)
(* (agent/base.py, agent/unit_tester/v1_simple.py, v2_scratchpad.py,       *)
(* llm/groq_client.py).                                                    *)
(*                                                                         *)
(* Text is modelled as the sequence of its lines (what str.split("\n")     *)
(* returns), so the empty string is the one-line text <<"">>.  A line is   *)
(* an atom; the predicates below say what the code can observe of it.      *)
(***************************************************************************)
EXTENDS Integers, Sequences, FiniteSets, TLC

\* ------------------------------------------------------------------ bounds
MaxIterations  == 2   \* max_iterations ranges over 0..MaxIterations
MaxInvocations == 2   \* calls of iterate on one agent object
MaxGenerateCalls == 3 \* direct calls of llm_generate on one agent object

\* ------------------------------------------------------------ python text
None     == [none |-> TRUE,  lines |-> <<>>]
Str(l)   == [none |-> FALSE, lines |-> l]
EmptyStr == Str(<<"">>)

JsonTrueMsg  == "{\"finished\": true, \"message\": \"ok\"}"
JsonTrueOnly == "{\"finished\": true}"
JsonFalseMsg == "{\"finished\": false, \"message\": \"wip\"}"
JsonStrTrue  == "{\"finished\": \"true\", \"message\": \"ok\"}"
JsonList     == "[1]"
JsonNumber   == "3"
Prose        == "working on it"
ProseWords   == "I finished step 1, message follows"
\* a line of three backquotes, with and without the language tag (the
\* backquote is not a character of a TLA+ string)
FenceJson    == "<bq3>json"
Fence        == "<bq3>"

\* "finished" in line.lower()
ContainsFinished(line) ==
    line \in {JsonTrueMsg, JsonTrueOnly, JsonFalseMsg, JsonStrTrue, ProseWords}

\* "message" in line.lower()
ContainsMessage(line) ==
    line \in {JsonTrueMsg, JsonFalseMsg, JsonStrTrue, ProseWords}

\* line.startswith(three backquotes)
StartsWithFence(line) == line \in {FenceJson, Fence}

IsBlank(line) == line = ""

\* the value json.loads gives for a one-line document, "error" when the line
\* is not JSON
JsonValue(line) ==
    CASE line = JsonTrueMsg  -> [kind |-> "dict", finished |-> "true"]
      [] line = JsonTrueOnly -> [kind |-> "dict", finished |-> "true"]
      [] line = JsonFalseMsg -> [kind |-> "dict", finished |-> "false"]
      [] line = JsonStrTrue  -> [kind |-> "dict", finished |-> "str"]
      [] line = JsonList     -> [kind |-> "list", finished |-> "absent"]
      [] line = JsonNumber   -> [kind |-> "int",  finished |-> "absent"]
      [] OTHER               -> [kind |-> "error", finished |-> "absent"]

RECURSIVE DropLeadingBlank(_)
DropLeadingBlank(l) ==
    IF l = <<>> THEN <<>>
    ELSE IF IsBlank(Head(l)) THEN DropLeadingBlank(Tail(l)) ELSE l

RECURSIVE DropTrailingBlank(_)
DropTrailingBlank(l) ==
    IF l = <<>> THEN <<>>
    ELSE IF IsBlank(l[Len(l)]) THEN DropTrailingBlank(SubSeq(l, 1, Len(l) - 1))
    ELSE l

\* str.strip()
strip(l) ==
    LET s == DropTrailingBlank(DropLeadingBlank(l))
    IN  IF s = <<>> THEN <<"">> ELSE s

\* s.split("\n", 1)[-1]: the text after the first newline, the whole text
\* when it has no newline
SplitFirstLast(l) == IF Len(l) >= 2 THEN Tail(l) ELSE l

\* s.rsplit("\n", 1)[0]: the text before the last newline, the whole text
\* when it has no newline
RsplitLastFirst(l) == IF Len(l) >= 2 THEN SubSeq(l, 1, Len(l) - 1) ELSE l

\* json.loads(text): whitespace around one JSON document is accepted, anything
\* else is a JSONDecodeError
json_loads(l) ==
    LET doc == SelectSeq(l, LAMBDA x : ~IsBlank(x))
    IN  IF Len(doc) = 1 THEN JsonValue(doc[1])
        ELSE [kind |-> "error", finished |-> "absent"]

\* ------------------------------------------------------- finish predicates
\* v1_simple.py: the two words occur somewhere in the lower-cased content
simple_finish(content) ==
    LET text == IF content.none THEN <<"">> ELSE content.lines
    IN  /\ \E i \in 1..Len(text) : ContainsFinished(text[i])
        /\ \E i \in 1..Len(text) : ContainsMessage(text[i])

\* v2_scratchpad.py: the text handed to json.loads
clean_content(content) ==
    LET text  == IF content.none THEN <<"">> ELSE content.lines
        clean == strip(text)
    IN  IF StartsWithFence(clean[1])
        THEN RsplitLastFirst(SplitFirstLast(clean))
        ELSE clean

\* scratchpad_finish without the "except Exception" handler: the
\* AttributeError of data.get on a list or a number leaves the block
scratchpad_finish_no_generic_handler(content) ==
    LET data == json_loads(clean_content(content))
    IN  IF data.kind = "error"
        THEN [finished |-> FALSE, caught |-> "JSONDecodeError", raised |-> FALSE]
        ELSE IF data.kind # "dict"
        THEN [finished |-> FALSE, caught |-> "none", raised |-> TRUE]
        ELSE [finished |-> data.finished = "true", caught |-> "none",
              raised |-> FALSE]

\* v2_scratchpad.py: the try block.  caught names the handler that ran:
\* "none", "JSONDecodeError" (json.loads failed) or "Exception" (data.get on
\* a value that is not a dict); raised tells whether an exception left the
\* block
scratchpad_finish(content) ==
    LET data == json_loads(clean_content(content))
    IN  IF data.kind = "error"
        THEN [finished |-> FALSE, caught |-> "JSONDecodeError", raised |-> FALSE]
        ELSE IF data.kind # "dict"
        THEN [finished |-> FALSE, caught |-> "Exception", raised |-> FALSE]
        ELSE [finished |-> data.finished = "true", caught |-> "none",
              raised |-> FALSE]

\* ------------------------------------------------------------- tool calls
RegisteredTools ==
    {"run_python_file", "run_pytest_tests", "list_directory_files",
     "read_file", "write_file", "create_folder", "remove_folder",
     "remove_file", "json_is_valid"}

ArgsOk         == "{\"file_path\": \"a.txt\"}"
ArgsBadKw      == "{\"bogus\": 1}"
ArgsList       == "[1]"
ArgsMalformed  == "{not json"
\* the dict {"file_path": "a.txt"} itself, not serialized text
ArgsStructured == "<dict>"

ToolResult    == "{'success': True, 'result': 'data'}"
ErrNotFound   == "Error executing tool: Tool foo not found"
ErrJsonDecode == "Error executing tool: Expecting property name enclosed in double quotes"
ErrJsonType   == "Error executing tool: the JSON object must be str, bytes or bytearray, not dict"
ErrNotMapping == "Error executing tool: argument after ** must be a mapping, not list"
ErrToolRaised == "Error executing tool: got an unexpected keyword argument 'bogus'"

\* json.loads(tool_call['function']['arguments'])
json_loads_arguments(arguments) ==
    CASE arguments = ArgsOk         -> "dict"
      [] arguments = ArgsBadKw      -> "dict"
      [] arguments = ArgsList       -> "list"
      [] arguments = ArgsMalformed  -> "JSONDecodeError"
      [] arguments = ArgsStructured -> "TypeError"

\* tools a client may register with the registry after construction
Registrable == {"foo"}

\* registries a client may bind to the agent in place of the constructor's
OtherRegistries == {{"json_is_valid"}}

\* ToolRegistry.to_client_tools(provider): the schema list, one entry for
\* each tool registered at the time of the call
to_client_tools(registry) == {[type |-> "function", name |-> n] : n \in registry}

\* ToolRegistry.get(name): the bound tool, or nothing
registry_get(registry, name) == name \in registry

\* tool_instance(**args) of a registered tool: the keyword arguments either
\* match the tool's parameters, or the call raises TypeError
tool_raises(name, arguments) == arguments # ArgsOk

ToolMessage(id, text) ==
    [role |-> "tool", content |-> Str(<<text>>), tool_call_id |-> id,
     tc_key |-> "absent", tool_calls |-> <<>>]

Returned(id, text, invoked) ==
    [msg |-> ToolMessage(id, text), invoked |-> invoked, raised |-> FALSE]

Propagated(id, invoked) ==
    [msg |-> ToolMessage(id, ""), invoked |-> invoked, raised |-> TRUE]

\* call_tool raising the lookup failure to its caller
call_tool_raise_not_found(registry, tool_call) ==
    LET args == json_loads_arguments(tool_call.arguments)
    IN  IF args = "JSONDecodeError"
        THEN Returned(tool_call.id, ErrJsonDecode, FALSE)
        ELSE IF args = "TypeError"
        THEN Returned(tool_call.id, ErrJsonType, FALSE)
        ELSE IF ~registry_get(registry, tool_call.name)
        THEN Propagated(tool_call.id, FALSE)
        ELSE IF args = "list"
        THEN Returned(tool_call.id, ErrNotMapping, FALSE)
        ELSE IF tool_raises(tool_call.name, tool_call.arguments)
        THEN Returned(tool_call.id, ErrToolRaised, TRUE)
        ELSE Returned(tool_call.id, ToolResult, TRUE)

\* call_tool with json.loads outside the try block
call_tool_parse_outside_try(registry, tool_call) ==
    LET args == json_loads_arguments(tool_call.arguments)
    IN  IF args \in {"JSONDecodeError", "TypeError"}
        THEN Propagated(tool_call.id, FALSE)
        ELSE IF ~registry_get(registry, tool_call.name)
        THEN Returned(tool_call.id, ErrNotFound, FALSE)
        ELSE IF args = "list"
        THEN Returned(tool_call.id, ErrNotMapping, FALSE)
        ELSE IF tool_raises(tool_call.name, tool_call.arguments)
        THEN Returned(tool_call.id, ErrToolRaised, TRUE)
        ELSE Returned(tool_call.id, ToolResult, TRUE)

\* call_tool catching ValueError only: a TypeError leaves it
call_tool_except_ValueError(registry, tool_call) ==
    LET args == json_loads_arguments(tool_call.arguments)
    IN  IF args = "JSONDecodeError"
        THEN Returned(tool_call.id, ErrJsonDecode, FALSE)
        ELSE IF args = "TypeError"
        THEN Propagated(tool_call.id, FALSE)
        ELSE IF ~registry_get(registry, tool_call.name)
        THEN Returned(tool_call.id, ErrNotFound, FALSE)
        ELSE IF args = "list"
        THEN Propagated(tool_call.id, FALSE)
        ELSE IF tool_raises(tool_call.name, tool_call.arguments)
        THEN Propagated(tool_call.id, TRUE)
        ELSE Returned(tool_call.id, ToolResult, TRUE)

\* Agent.call_tool: msg is the returned message, invoked tells whether the
\* tool was called, raised whether an exception left call_tool
call_tool(registry, tool_call) ==
    LET args == json_loads_arguments(tool_call.arguments)
    IN  IF args = "JSONDecodeError"
        THEN Returned(tool_call.id, ErrJsonDecode, FALSE)
        ELSE IF args = "TypeError"
        THEN Returned(tool_call.id, ErrJsonType, FALSE)
        ELSE IF ~registry_get(registry, tool_call.name)
        THEN Returned(tool_call.id, ErrNotFound, FALSE)
        ELSE IF args = "list"
        THEN Returned(tool_call.id, ErrNotMapping, FALSE)
        ELSE IF tool_raises(tool_call.name, tool_call.arguments)
        THEN Returned(tool_call.id, ErrToolRaised, TRUE)
        ELSE Returned(tool_call.id, ToolResult, TRUE)

\* ---------------------------------------------------------------- backend
ToolUseFailedText ==
    "System Error: The model failed to generate a valid tool call. Raw Error: x"

Response(content, tc_key, tool_calls) ==
    [role |-> "assistant", content |-> content, tc_key |-> tc_key,
     tool_calls |-> tool_calls]

\* generate letting every backend error out, tool_use_failed included
generate_reraises_all(reply) ==
    IF reply.kind = "ok"
    THEN [raised |-> FALSE,
          response |-> Response(reply.content,
                                IF reply.tool_calls # <<>>
                                THEN "list" ELSE "absent",
                                reply.tool_calls)]
    ELSE [raised |-> TRUE, response |-> Response(None, "absent", <<>>)]

\* generate turning every backend error into an assistant message
generate_swallows_all(reply) ==
    IF reply.kind = "ok"
    THEN [raised |-> FALSE,
          response |-> Response(reply.content,
                                IF reply.tool_calls # <<>>
                                THEN "list" ELSE "absent",
                                reply.tool_calls)]
    ELSE [raised |-> FALSE,
          response |-> Response(Str(<<ToolUseFailedText>>), "absent", <<>>)]

\* GroqClient.generate.  reply is what chat.completions.create does: it
\* returns a message (kind "ok"), or raises BadRequestError with code
\* tool_use_failed, or raises another error (kind "error")
generate(reply) ==
    IF reply.kind = "ok"
    THEN [raised |-> FALSE,
          response |-> Response(reply.content,
                                IF reply.tool_calls # <<>>
                                THEN "list" ELSE "absent",
                                reply.tool_calls)]
    ELSE IF reply.kind = "tool_use_failed"
    THEN [raised |-> FALSE,
          response |-> Response(Str(<<ToolUseFailedText>>), "absent", <<>>)]
    ELSE [raised |-> TRUE, response |-> Response(None, "absent", <<>>)]

\* ------------------------------------------------------------------ inputs
\* assistant contents the model may produce
Contents ==
    {None, EmptyStr, Str(<<Prose>>), Str(<<ProseWords>>),
     Str(<<JsonTrueMsg>>), Str(<<JsonTrueOnly>>), Str(<<JsonFalseMsg>>),
     Str(<<JsonStrTrue>>), Str(<<JsonList>>), Str(<<JsonNumber>>),
     Str(<<FenceJson, JsonTrueMsg, Fence>>),
     Str(<<FenceJson, JsonFalseMsg, Fence>>),
     Str(<<FenceJson, JsonTrueMsg, Prose>>),
     Str(<<"", JsonTrueMsg, "">>)}

CallShapes ==
    [name : {"read_file", "foo"},
     arguments : {ArgsOk, ArgsBadKw, ArgsList, ArgsMalformed, ArgsStructured}]

GoodCall     == [name |-> "read_file", arguments |-> ArgsOk]
RaisingCall  == [name |-> "read_file", arguments |-> ArgsBadKw]
UnknownCall  == [name |-> "foo", arguments |-> ArgsOk]

\* the tool calls of one assistant turn: one of any shape, or a good, a
\* raising or an unknown call followed by a second call
CallLists ==
    {<<c>> : c \in CallShapes}
    \cup {<<c, GoodCall>> : c \in {GoodCall, RaisingCall, UnknownCall}}

\* contents that also come with a tool call
ContentsWithCall ==
    {None, EmptyStr, Str(<<JsonList>>), Str(<<FenceJson, JsonTrueMsg, Fence>>)}

\* the backend gives every tool call of a conversation an id of its own
MkCalls(shapes, first_id) ==
    [k \in 1..Len(shapes) |->
        [id |-> first_id + k - 1, name |-> shapes[k].name,
         arguments |-> shapes[k].arguments]]

Reply(content, shapes, first_id) ==
    [kind |-> "ok", content |-> content,
     tool_calls |-> MkCalls(shapes, first_id)]

\* what the backend may answer to one generation call (without the errors
\* that are not tool_use_failed, see IterateBackendError)
Replies(first_id) ==
    {Reply(c, <<>>, first_id) : c \in Contents}
    \cup {Reply(c, <<GoodCall>>, first_id) : c \in ContentsWithCall}
    \cup {Reply(Str(<<Prose>>), l, first_id) : l \in CallLists}
    \cup {[kind |-> "tool_use_failed", content |-> None, tool_calls |-> <<>>]}

\* everything chat.completions.create may do on one call
BackendReplies(first_id) ==
    Replies(first_id)
    \cup {[kind |-> "error", content |-> None, tool_calls |-> <<>>]}

\* the task given to the n-th call of iterate
task_input(n) == ToString(n)

\* ------------------------------------------------------------------- state
VARIABLES
    variant,         \* "simple" (v1) or "scratchpad" (v2): the agent class
    max_iterations,  \* Agent.max_iterations
    tool_registry,   \* names bound in Agent.tool_registry
    inital_state,    \* Agent.inital_state, the template
    state,           \* the state object iterate works on
    pc,              \* "idle", "running", "returned", "raised"
    invocations,     \* calls of iterate so far
    next_id,         \* next tool call id the backend hands out
    gen_calls,       \* generation calls of the current invocation
    dispatches,      \* calls of call_tool in the current invocation
    sent,            \* history passed to the latest generation call
    start_state,     \* what start_point returned to the current invocation
    round,           \* the latest call of run: response, outcome
    fired,           \* the finish test succeeded in the current invocation
    exception,       \* what left iterate: "none", "BackendError", or "RunError"
                     \* (an exception raised in run after the backend call)
    backend,         \* what the backend did on the latest generation call of
                     \* the invocation: "none", "ok", "tool_use_failed", "error"
    sent_tools       \* tools arguments of the generation calls of the
                     \* invocation, in order

\* the example scripts 00_raw_unit_tester.py and 01_raw_traced_unit_tester.py
VARIABLES
    script,                 \* "00" or "01": the script that is run
    script_max_iterations,  \* the script's max_iterations
    script_iteration,       \* the script's iteration
    script_messages,        \* the script's messages
    script_pc,              \* "loop", "stopped" (break) or "raised"
    script_gen_calls,       \* calls of client.generate so far
    script_sent,            \* messages as passed to the latest of them
    script_next_id          \* next tool call id the backend hands out

\* the builtin file tools
VARIABLES
    fs,         \* the file system: what is at each path
    last_call   \* the latest call of a file tool: arguments, file system
                \* before it, outcome

agent_vars == <<variant, max_iterations, tool_registry, inital_state, state,
                pc, invocations, next_id, gen_calls, dispatches, sent,
                start_state, round, fired, exception, backend, sent_tools>>

script_vars == <<script, script_max_iterations, script_iteration,
                 script_messages, script_pc, script_gen_calls, script_sent,
                 script_next_id>>

file_vars == <<fs, last_call>>

vars == <<agent_vars, script_vars, file_vars>>

Message(role, content, tc_key, tool_calls) ==
    [role |-> role, content |-> content, tool_call_id |-> 0,
     tc_key |-> tc_key, tool_calls |-> tool_calls]

\* BaseAgentState()
BaseAgentState == [messages |-> <<>>, is_finished |-> FALSE, iteration |-> 0]

\* add_message putting the message at the head of the list
add_message_front(st, msg) == [st EXCEPT !.messages = <<msg>> \o @]

\* BaseAgentState.add_message
add_message(st, msg) == [st EXCEPT !.messages = Append(@, msg)]

SystemPrompt == "You are a QA Agent. Tools: {tools}"

NoRound ==
    [happened |-> FALSE, response |-> Response(None, "absent", <<>>),
     before |-> <<>>, at_dispatch |-> <<>>, finish |-> FALSE, invoked |-> 0,
     dispatched |-> 0]

\* paths of the file system the file tools work on: a path and two paths
\* under it
Paths == {"a", "a/b", "a/c"}

\* nothing at any path
EmptyFs == [p \in Paths |-> [kind |-> "absent", content |-> ""]]

NoCall == [tool |-> "none", path |-> "a", content |-> "", before |-> EmptyFs,
           success |-> FALSE, raised |-> FALSE, key |-> "error",
           value |-> ""]

\* no file tool is called
FileToolsNotCalled == fs = EmptyFs /\ last_call = NoCall

\* no example script is run
ScriptsNotRun ==
    /\ script = "00"
    /\ script_max_iterations = 0
    /\ script_iteration = 0
    /\ script_messages = <<>>
    /\ script_pc = "stopped"
    /\ script_gen_calls = 0
    /\ script_sent = <<>>
    /\ script_next_id = 1

\* Agent.__init__ and the subclass constructors
Init ==
    /\ variant \in {"simple", "scratchpad"}
    /\ max_iterations \in 0..MaxIterations
    /\ tool_registry = RegisteredTools
    /\ inital_state =
         add_message(BaseAgentState,
                     Message("system", Str(<<SystemPrompt>>), "absent", <<>>))
    /\ state = BaseAgentState
    /\ pc = "idle"
    /\ invocations = 0
    /\ next_id = 1
    /\ gen_calls = 0
    /\ dispatches = 0
    /\ sent = <<>>
    /\ start_state = BaseAgentState
    /\ round = NoRound
    /\ fired = FALSE
    /\ exception = "none"
    /\ backend = "none"
    /\ sent_tools = <<>>
    /\ ScriptsNotRun
    /\ FileToolsNotCalled

\* -------------------------------------------------------------- operations
\* start_point of both variants: the template plus the user message.  v1
\* returns the template object itself, v2 a deep copy (see StartPoint)
start_point(template, user_query) ==
    add_message(template, Message("user", Str(<<user_query>>), "absent", <<>>))

\* the for loop over tool_calls in run: call_tool for each, in order; an
\* exception leaving call_tool ends the loop
RECURSIVE dispatch(_, _)
dispatch(registry, tool_calls) ==
    IF tool_calls = <<>> THEN <<>>
    ELSE LET first == call_tool(registry, Head(tool_calls))
         IN  IF first.raised THEN <<first>>
             ELSE <<first>> \o dispatch(registry, Tail(tool_calls))

\* the tool messages put in front of one another: the last call's first
ToolMessages_reversed(results) ==
    LET returned == SelectSeq(results, LAMBDA r : ~r.raised)
    IN  [k \in 1..Len(returned) |-> returned[Len(returned) + 1 - k].msg]

\* state.messages.append(tool_msg) for every call that returned
ToolMessages(results) ==
    LET returned == SelectSeq(results, LAMBDA r : ~r.raised)
    IN  [k \in 1..Len(returned) |-> returned[k].msg]

Invoked(results) == Cardinality({k \in 1..Len(results) : results[k].invoked})

Raised(results) == \E k \in 1..Len(results) : results[k].raised

\* run_simple dispatching the tool calls before it appends the assistant
\* message
run_simple_dispatch_first(registry, st, response) ==
    LET assistant == Message("assistant", response.content,
                             IF response.tc_key = "absent" THEN "null"
                             ELSE "list",
                             response.tool_calls)
        results == dispatch(registry, response.tool_calls)
        s1 == add_message([st EXCEPT !.messages = @ \o ToolMessages(results)],
                          assistant)
        s2 == IF simple_finish(response.content)
              THEN [s1 EXCEPT !.is_finished = TRUE] ELSE s1
    IN  [state   |-> s2,
         raised  |-> Raised(results),
         results |-> results,
         at_dispatch |-> st.messages]

\* SimpleUnitTesterAgent.run, after llm_generate returned response: the
\* state it leaves and whether an exception left it
run_simple(registry, st, response) ==
    LET assistant == Message("assistant", response.content,
                             IF response.tc_key = "absent" THEN "null"
                             ELSE "list",
                             response.tool_calls)
        s1 == add_message(st, assistant)
        s2 == IF simple_finish(response.content)
              THEN [s1 EXCEPT !.is_finished = TRUE] ELSE s1
        results == dispatch(registry, response.tool_calls)
    IN  [state   |-> [s2 EXCEPT !.messages = @ \o ToolMessages(results)],
         raised  |-> Raised(results),
         results |-> results,
         at_dispatch |-> s2.messages]

\* response.get("content") or ""
content_or_empty(content) == IF content.none THEN EmptyStr ELSE content

\* run_scratchpad keeping the tool messages of earlier rounds too
run_scratchpad_keeps_tool(registry, st, response) ==
    LET content == content_or_empty(response.content)
        persistent_messages ==
            SelectSeq(st.messages,
                      LAMBDA m : m.role \in {"system", "user", "tool"})
        assistant == Message("assistant", content, "list", response.tool_calls)
        s1 == add_message([st EXCEPT !.messages = persistent_messages],
                          assistant)
        finish == scratchpad_finish(content)
        s2 == IF finish.finished
              THEN [s1 EXCEPT !.is_finished = TRUE] ELSE s1
        results == IF finish.raised THEN <<>>
                   ELSE dispatch(registry, response.tool_calls)
    IN  [state   |-> [s2 EXCEPT !.messages = @ \o ToolMessages(results)],
         raised  |-> finish.raised \/ Raised(results),
         results |-> results,
         at_dispatch |-> s2.messages]

\* run_scratchpad without the reset of the history
run_scratchpad_no_reset(registry, st, response) ==
    LET content == content_or_empty(response.content)
        assistant == Message("assistant", content, "list", response.tool_calls)
        s1 == add_message(st, assistant)
        finish == scratchpad_finish(content)
        s2 == IF finish.finished
              THEN [s1 EXCEPT !.is_finished = TRUE] ELSE s1
        results == IF finish.raised THEN <<>>
                   ELSE dispatch(registry, response.tool_calls)
    IN  [state   |-> [s2 EXCEPT !.messages = @ \o ToolMessages(results)],
         raised  |-> finish.raised \/ Raised(results),
         results |-> results,
         at_dispatch |-> s2.messages]

\* ScratchpadUnitTesterAgent.run, after llm_generate returned response
run_scratchpad(registry, st, response) ==
    LET content == content_or_empty(response.content)
        persistent_messages ==
            SelectSeq(st.messages, LAMBDA m : m.role \in {"system", "user"})
        assistant == Message("assistant", content, "list", response.tool_calls)
        s1 == add_message([st EXCEPT !.messages = persistent_messages],
                          assistant)
        finish == scratchpad_finish(content)
        s2 == IF finish.finished
              THEN [s1 EXCEPT !.is_finished = TRUE] ELSE s1
        results == IF finish.raised THEN <<>>
                   ELSE dispatch(registry, response.tool_calls)
    IN  [state   |-> [s2 EXCEPT !.messages = @ \o ToolMessages(results)],
         raised  |-> finish.raised \/ Raised(results),
         results |-> results,
         at_dispatch |-> s2.messages]

run(v, registry, st, response) ==
    IF v = "simple" THEN run_simple(registry, st, response)
    ELSE run_scratchpad(registry, st, response)

\* the finish test the variant applies to a response
finish_test(v, response) ==
    IF v = "simple" THEN simple_finish(response.content)
    ELSE scratchpad_finish(content_or_empty(response.content)).finished

\* while_condition with the budget test off by one
while_condition_le(st, max) == ~st.is_finished /\ st.iteration <= max

\* while_condition with the two tests joined by "or"
while_condition_or(st, max) == ~st.is_finished \/ st.iteration < max

\* Agent.iterate: the while condition
while_condition(st, max) == ~st.is_finished /\ st.iteration < max

\* client_tools computed by the first call and kept for the later ones
client_tools_cached(registry, previous) ==
    IF previous = <<>> THEN to_client_tools(registry) ELSE previous[1]

\* Agent.llm_generate: client_tools = self.tool_registry.to_client_tools(..);
\* previous, the lists of the calls before, is not used
client_tools(registry, previous) == to_client_tools(registry)

\* the loop body without the increment
next_iteration_none(st) == st

\* state.iteration += 1, and once more
next_iteration_twice(st) == [st EXCEPT !.iteration = @ + 2]

\* Agent.iterate: state.iteration += 1
next_iteration(st) == [st EXCEPT !.iteration = @ + 1]

\* state is the object the loop holds; in v1 it is the template object
Bind(new_state) ==
    /\ state' = new_state
    /\ inital_state' = IF variant = "simple" THEN new_state ELSE inital_state

\* ----------------------------------------------------------------- actions
\* iterate is called: state = self.start_point(user_query)
StartPoint ==
    /\ pc \in {"idle", "returned", "raised"}
    /\ invocations < MaxInvocations
    /\ Bind(start_point(inital_state, task_input(invocations + 1)))
    /\ start_state' = start_point(inital_state, task_input(invocations + 1))
    /\ pc' = "running"
    /\ invocations' = invocations + 1
    /\ gen_calls' = 0
    /\ dispatches' = 0
    /\ fired' = FALSE
    /\ round' = NoRound
    /\ exception' = "none"
    /\ backend' = "none"
    /\ sent_tools' = <<>>
    /\ UNCHANGED <<variant, max_iterations, tool_registry, next_id, sent>>
    /\ UNCHANGED <<script_vars, file_vars>>

\* one pass of the while body: state = self.run(state); state.iteration += 1.
\* An exception leaving run leaves iterate before the increment.
IterateRound ==
    /\ pc = "running"
    /\ while_condition(state, max_iterations)
    /\ gen_calls <= MaxIterations
    /\ \E reply \in BackendReplies(next_id) :
         LET response == generate(reply).response
             r        == run(variant, tool_registry, state, response)
         IN  /\ ~generate(reply).raised
             /\ IF r.raised
                THEN /\ Bind(r.state)
                     /\ pc' = "raised"
                     /\ exception' = "RunError"
                ELSE /\ Bind(next_iteration(r.state))
                     /\ UNCHANGED <<pc, exception>>
             /\ next_id' = next_id + Len(reply.tool_calls)
             /\ dispatches' = dispatches + Len(r.results)
             /\ fired' = (fired \/ finish_test(variant, response))
             /\ round' = [happened |-> TRUE, response |-> response,
                          before |-> state.messages,
                          at_dispatch |-> r.at_dispatch,
                          finish |-> finish_test(variant, response),
                          invoked |-> Invoked(r.results),
                          dispatched |-> Len(r.results)]
             /\ backend' = reply.kind
    /\ sent' = state.messages
    /\ sent_tools' = Append(sent_tools, client_tools(tool_registry, sent_tools))
    /\ gen_calls' = gen_calls + 1
    /\ UNCHANGED <<variant, max_iterations, tool_registry, invocations,
                   start_state>>
    /\ UNCHANGED <<script_vars, file_vars>>

\* llm.generate raises (transport, authentication): the error leaves run and
\* iterate
IterateBackendError ==
    /\ pc = "running"
    /\ while_condition(state, max_iterations)
    /\ gen_calls <= MaxIterations
    /\ \E reply \in BackendReplies(next_id) :
         /\ generate(reply).raised
         /\ backend' = reply.kind
    /\ sent' = state.messages
    /\ sent_tools' = Append(sent_tools, client_tools(tool_registry, sent_tools))
    /\ gen_calls' = gen_calls + 1
    /\ pc' = "raised"
    /\ exception' = "BackendError"
    /\ UNCHANGED <<variant, max_iterations, tool_registry, inital_state,
                   state, invocations, next_id, dispatches, start_state,
                   round, fired>>
    /\ UNCHANGED <<script_vars, file_vars>>

\* the while condition is false: return state
IterateReturn ==
    /\ pc = "running"
    /\ ~while_condition(state, max_iterations)
    /\ pc' = "returned"
    /\ UNCHANGED <<variant, max_iterations, tool_registry, inital_state,
                   state, invocations, next_id, gen_calls, dispatches, sent,
                   start_state, round, fired, exception, backend, sent_tools>>
    /\ UNCHANGED <<script_vars, file_vars>>

\* a client calls agent.llm_generate(state) with the template state: the
\* schema list is computed, the backend called, the response (or the
\* backend's error) handed to the caller
LlmGenerate ==
    /\ pc = "idle"
    /\ gen_calls < MaxGenerateCalls
    /\ \E reply \in BackendReplies(next_id) :
         /\ backend' = reply.kind
         /\ next_id' = next_id + Len(reply.tool_calls)
    /\ sent' = inital_state.messages
    /\ sent_tools' = Append(sent_tools, client_tools(tool_registry, sent_tools))
    /\ gen_calls' = gen_calls + 1
    /\ UNCHANGED <<variant, max_iterations, tool_registry, inital_state,
                   state, pc, invocations, dispatches, start_state, round,
                   fired, exception>>
    /\ UNCHANGED <<script_vars, file_vars>>

\* a client registers one more tool with the agent's registry
RegisterTool ==
    /\ \E name \in Registrable \ tool_registry :
         tool_registry' = tool_registry \cup {name}
    /\ UNCHANGED <<variant, max_iterations, inital_state, state, pc,
                   invocations, next_id, gen_calls, dispatches, sent,
                   start_state, round, fired, exception, backend, sent_tools>>
    /\ UNCHANGED <<script_vars, file_vars>>

\* a client binds another registry to the agent: agent.tool_registry = other
RebindRegistry ==
    /\ \E other \in OtherRegistries \ {tool_registry} :
         tool_registry' = other
    /\ UNCHANGED <<variant, max_iterations, inital_state, state, pc,
                   invocations, next_id, gen_calls, dispatches, sent,
                   start_state, round, fired, exception, backend, sent_tools>>
    /\ UNCHANGED <<script_vars, file_vars>>

Next == StartPoint \/ IterateRound \/ IterateBackendError \/ IterateReturn

Spec == Init /\ [][Next]_vars

\* every backend call and every tool invocation returns or raises in finite
\* time, so a pass of the loop body that has begun is completed, and a
\* return that is due is made.  The fairness of the loop body is
\* WF_vars(RoundStep) written out, with the guards the two actions share in
\* place of ENABLED <<RoundStep>>_vars
RoundStep == IterateRound \/ IterateBackendError

RoundEnabled ==
    /\ pc = "running"
    /\ while_condition(state, max_iterations)
    /\ gen_calls <= MaxIterations

RoundFairness == ([]<>~RoundEnabled) \/ ([]<><<RoundStep>>_vars)

\* the first call of iterate on an agent
FirstStartPoint == invocations = 0 /\ StartPoint

\* one call of iterate on a newly constructed agent, run to its end
NextFair ==
    FirstStartPoint \/ IterateRound \/ IterateBackendError \/ IterateReturn

SpecFair ==
    Init /\ [][NextFair]_vars /\ WF_vars(IterateReturn) /\ RoundFairness

\* llm_generate called on an agent whose registry changes between the calls
NextRegistry == LlmGenerate \/ RegisterTool \/ RebindRegistry

SpecRegistry == Init /\ [][NextRegistry]_vars

TypeOK ==
    /\ pc \in {"idle", "running", "returned", "raised"}
    /\ state.iteration \in 0..MaxIterations
    /\ gen_calls \in 0..MaxIterations
    /\ backend \in {"none", "ok", "tool_use_failed", "error"}
    /\ exception \in {"none", "BackendError", "RunError"}

\* ============================================================== properties
\* the tool messages the latest call of run appended: what follows its
\* assistant message in the history
RoundAssistantIdx ==
    IF variant = "simple" THEN Len(round.before) + 1
    ELSE Len(SelectSeq(round.before,
                       LAMBDA m : m.role \in {"system", "user"})) + 1

RoundToolMessages ==
    SubSeq(state.messages, RoundAssistantIdx + 1, Len(state.messages))

RoundCalls == round.response.tool_calls

\* the (message index, entry index) pairs of the tool_calls entries with
\* the given id in the assistant messages of h[1..upto]
Requests(h, upto, id) ==
    UNION {{<<j, k>> : k \in {n \in 1..Len(h[j].tool_calls) :
                                h[j].tool_calls[n].id = id}} :
           j \in {m \in 1..upto : h[m].role = "assistant"}}

\* the indexes of the tool messages of h that carry the given id
Answers(h, id) ==
    {i \in 1..Len(h) : h[i].role = "tool" /\ h[i].tool_call_id = id}

WellPaired(h) ==
    /\ \A i \in 1..Len(h) :
         h[i].role = "tool" =>
            Cardinality(Requests(h, i - 1, h[i].tool_call_id)) = 1
    /\ \A j \in 1..Len(h) :
         h[j].role = "assistant" =>
            \A k \in 1..Len(h[j].tool_calls) :
               Cardinality(Answers(h, h[j].tool_calls[k].id)) = 1

\* C1: one call of iterate makes at most max_iterations generation calls,
\* whatever the model answers.
C1_AtMostMaxIterationsRounds == gen_calls <= max_iterations

\* iterate returned after using its whole budget of at least one round
C1_Witness ==
    /\ pc = "returned"
    /\ max_iterations > 0
    /\ gen_calls = max_iterations

\* C2: with max_iterations = 0, iterate makes no generation call and no tool
\* call and returns the state start_point produced: same messages, same
\* iteration, is_finished false.
C2_ZeroBudgetReturnsStartState ==
    (pc = "returned" /\ max_iterations = 0) =>
        /\ gen_calls = 0
        /\ dispatches = 0
        /\ state = start_state
        /\ ~state.is_finished

\* the second call of iterate on an agent with max_iterations = 0 returned
C2_Witness ==
    /\ pc = "returned"
    /\ max_iterations = 0
    /\ invocations > 1

\* C3: the history passed to every generation call pairs tool messages and
\* tool_calls entries one to one: every tool message answers exactly one
\* entry of an earlier assistant message, and every entry of every assistant
\* message has exactly one tool message with its id.
\* (sent is the history of the latest generation call; at the head of the loop
\* state.messages is the history the next generation call is passed.)
C3_SentHistoryWellPaired ==
    /\ WellPaired(sent)
    /\ pc = "running" => WellPaired(state.messages)

\* a generation call got a history with a two-call turn whose first call
\* failed
C3_Witness ==
    \E j \in 1..Len(sent) :
        /\ sent[j].role = "assistant"
        /\ Len(sent[j].tool_calls) > 1
        /\ \E i \in 1..Len(sent) :
              /\ sent[i].role = "tool"
              /\ sent[i].tool_call_id = sent[j].tool_calls[1].id
              /\ sent[i].content # Str(<<ToolResult>>)

\* C4: every tool call request of a round gets exactly one tool message with
\* its id, on the success path and on every failure path of call_tool, and
\* run appends exactly these messages, so no request is left unanswered.
C4_OneToolMessagePerRequest ==
    round.happened =>
        /\ exception # "RunError"
        /\ Len(RoundToolMessages) = Len(RoundCalls)
        /\ \A k \in 1..Len(RoundCalls) :
              Cardinality({i \in 1..Len(RoundToolMessages) :
                  /\ RoundToolMessages[i].role = "tool"
                  /\ RoundToolMessages[i].tool_call_id = RoundCalls[k].id}) = 1

\* a round dispatched a call with unparseable arguments
C4_Witness ==
    /\ round.happened
    /\ \E k \in 1..Len(RoundCalls) :
          /\ RoundCalls[k].arguments = ArgsMalformed
          /\ \E i \in 1..Len(RoundToolMessages) :
                /\ RoundToolMessages[i].tool_call_id = RoundCalls[k].id
                /\ RoundToolMessages[i].content = Str(<<ErrJsonDecode>>)

\* a tool call the dispatch answers from the registered tool raising
RaisedInTool(registry, tool_call) ==
    /\ json_loads_arguments(tool_call.arguments) = "dict"
    /\ tool_call.name \in registry
    /\ tool_call.arguments # ArgsOk

\* the tool message of the latest round that answers the k-th request
RoundAnswer(k) ==
    CHOOSE m \in {RoundToolMessages[i] : i \in 1..Len(RoundToolMessages)} :
        m.tool_call_id = RoundCalls[k].id

RoundAnswered(k) ==
    \E i \in 1..Len(RoundToolMessages) :
        RoundToolMessages[i].tool_call_id = RoundCalls[k].id

\* C5 (as claimed): a tool call naming a tool that is not in the registry
\* is answered, whatever its arguments payload, by a tool message with the
\* request's id whose content is the "tool not found" error, and nothing is
\* raised out of run.
C5_UnknownToolAnsweredNotFound ==
    round.happened =>
        \A k \in 1..Len(RoundCalls) :
            RoundCalls[k].name \notin tool_registry =>
                /\ exception # "RunError"
                /\ RoundAnswered(k)
                /\ RoundAnswer(k).content = Str(<<ErrNotFound>>)

\* C6: when a registered tool raises, the exception does not leave run or
\* iterate, an error tool message takes the place of the result, the later
\* tool calls of the turn are still dispatched, and the next generation call
\* gets a history in which every tool call of that turn is answered.
C6_ToolExceptionIsolated ==
    /\ round.happened =>
         \A k \in 1..Len(RoundCalls) :
            RaisedInTool(tool_registry, RoundCalls[k]) =>
                /\ exception # "RunError"
                /\ RoundAnswered(k)
                /\ RoundAnswer(k).content = Str(<<ErrToolRaised>>)
                /\ round.dispatched = Len(RoundCalls)
                /\ \A n \in (k + 1)..Len(RoundCalls) : RoundAnswered(n)
    /\ \A j \in 1..Len(sent) :
         (/\ sent[j].role = "assistant"
          /\ \E k \in 1..Len(sent[j].tool_calls) :
                RaisedInTool(tool_registry, sent[j].tool_calls[k]))
         => \A k \in 1..Len(sent[j].tool_calls) :
               Cardinality({i \in (j + 1)..Len(sent) :
                   /\ sent[i].role = "tool"
                   /\ sent[i].tool_call_id = sent[j].tool_calls[k].id}) = 1

\* the generation call after a turn whose first tool raised and whose second
\* tool returned
C6_Witness ==
    /\ round.happened
    /\ \E j \in 1..Len(sent) :
          /\ sent[j].role = "assistant"
          /\ Len(sent[j].tool_calls) > 1
          /\ RaisedInTool(tool_registry, sent[j].tool_calls[1])
          /\ \E i \in (j + 1)..Len(sent) :
                /\ sent[i].tool_call_id = sent[j].tool_calls[1].id
                /\ sent[i].content = Str(<<ErrToolRaised>>)

\* the finish predicate of the specification: the content, without an
\* opening and a closing code-fence line, parses as an object whose
\* "finished" field is the boolean true
WithoutFences(text) ==
    LET s == strip(text)
        a == IF StartsWithFence(s[1]) THEN Tail(s) ELSE s
    IN  IF a # <<>> /\ a[Len(a)] = Fence THEN SubSeq(a, 1, Len(a) - 1) ELSE a

FinishedPayload(content) ==
    /\ ~content.none
    /\ LET data == json_loads(WithoutFences(content.lines))
       IN  data.kind = "dict" /\ data.finished = "true"

\* C7 (as claimed): in every agent variant run sets is_finished only if the
\* content, without optional code-fence markers, parses as structured data
\* whose "finished" field is the boolean true.
C7_FinishedOnlyOnFinishedPayload ==
    (round.happened /\ state.is_finished) =>
        FinishedPayload(round.response.content)

\* content that holds no JSON object at all: absent, empty, prose, or a JSON
\* value that is not an object
NoObject(content) ==
    \/ content.none
    \/ \A i \in 1..Len(content.lines) :
          JsonValue(content.lines[i]).kind # "dict"

C9_NoDispatchInFinishingRound ==
    (round.happened /\ round.finish) =>
        /\ round.dispatched = 0
        /\ round.invoked = 0
        /\ RoundToolMessages = <<>>

\* C10 (as claimed): when iterate returns, is_finished is true or iteration
\* equals max_iterations, and is_finished is true exactly when the finish
\* test succeeded in a round of this invocation.
C10_EndStatesDistinguishable ==
    pc = "returned" =>
        /\ state.is_finished \/ state.iteration = max_iterations
        /\ state.is_finished <=> fired


\* C11: every invocation of iterate, the second and later ones on the same
\* agent included, starts from a state made for it: iteration 0, is_finished
\* false, and as messages the system message and this invocation's user
\* message only
C11_FreshStatePerInvocation ==
    invocations > 0 =>
        start_state =
            [messages    |-> <<Message("system", Str(<<SystemPrompt>>),
                                       "absent", <<>>),
                               Message("user",
                                       Str(<<task_input(invocations)>>),
                                       "absent", <<>>)>>,
             is_finished |-> FALSE,
             iteration   |-> 0]

\* C12: when the backend call fails with an error other than tool_use_failed,
\* generate re-raises it and it leaves iterate: the invocation ends raised
\* with the backend's error, the failing call dispatched no tool and changed
\* no state, and the invocation makes no generation call and no tool call
\* after it
C12_BackendErrorPropagates ==
    /\ [](backend = "error" => pc = "raised" /\ exception = "BackendError")
    /\ [][(backend' = "error" /\ backend # "error")
            => (dispatches' = dispatches /\ state' = state)]_vars
    /\ [][(backend = "error" /\ invocations' = invocations)
            => (gen_calls' = gen_calls /\ dispatches' = dispatches)]_vars

\* a second generation call of an invocation failed: the first round's work
\* is in the state and iterate raised
C12_Witness ==
    /\ backend = "error"
    /\ pc = "raised"
    /\ exception = "BackendError"
    /\ gen_calls = 2
    /\ dispatches > 0

\* C13: when the backend call fails with tool_use_failed, generate raises
\* nothing and returns an assistant message with a text describing the
\* failure and no tool_calls; the round appends that one assistant message,
\* dispatches no tool and does not finish, and iterate goes on: the round
\* counted as an iteration and nothing was raised
C13_ToolUseFailedDegrades ==
    backend = "tool_use_failed" =>
        /\ round.happened
        /\ round.response = Response(Str(<<ToolUseFailedText>>), "absent", <<>>)
        /\ round.dispatched = 0
        /\ Len(state.messages) = RoundAssistantIdx
        /\ state.messages[RoundAssistantIdx].role = "assistant"
        /\ state.messages[RoundAssistantIdx].content =
               Str(<<ToolUseFailedText>>)
        /\ state.messages[RoundAssistantIdx].tool_calls = <<>>
        /\ SubSeq(state.messages, 1, RoundAssistantIdx - 1) =
               (IF variant = "simple" THEN round.before
                ELSE SelectSeq(round.before,
                               LAMBDA m : m.role \in {"system", "user"}))
        /\ ~round.finish
        /\ exception = "none"
        /\ pc \in {"running", "returned"}
        /\ state.iteration > 0

\* a tool_use_failed round was followed by the loop's next test, which let
\* the loop go on
C13_Witness ==
    /\ backend = "tool_use_failed"
    /\ pc = "running"
    /\ gen_calls = 1
    /\ while_condition(state, max_iterations)


\* C14: the tool messages a call of run appends stand in the order of the
\* requests in the response's tool_calls: the i-th tool message after the
\* round's assistant message carries the id of the i-th request
C14_ToolMessagesInRequestOrder ==
    round.happened =>
        /\ Len(RoundToolMessages) = Len(RoundCalls)
        /\ \A i \in 1..Len(RoundCalls) :
              /\ RoundToolMessages[i].role = "tool"
              /\ RoundToolMessages[i].tool_call_id = RoundCalls[i].id

\* a round with two requests: the first answered by an error, the second by
\* the tool's result
C14_Witness ==
    /\ round.happened
    /\ Len(RoundCalls) = 2
    /\ Len(RoundToolMessages) = 2
    /\ RoundToolMessages[1].tool_call_id = RoundCalls[1].id
    /\ RoundToolMessages[1].content # RoundToolMessages[2].content

IsPrefix(s1, s2) ==
    /\ Len(s1) <= Len(s2)
    /\ SubSeq(s2, 1, Len(s1)) = s1

\* the system and user messages of a history, in its order
Persistent(h) == SelectSeq(h, LAMBDA m : m.role \in {"system", "user"})

\* C15 (as claimed): the history is append-only: for every call of run of
\* every agent variant, the history before the call is a prefix of the
\* history after it
C15_HistoryAppendOnly ==
    round.happened => IsPrefix(round.before, state.messages)

\* C15 (amended): for every call of run of SimpleUnitTesterAgent the history
\* before the call is a prefix of the history after it; for every call of
\* run of ScratchpadUnitTesterAgent the system and user messages of the
\* history before the call are, in their order, a prefix of the history
\* after it
C15_PersistentHistoryAppendOnly ==
    round.happened =>
        IF variant = "simple"
        THEN IsPrefix(round.before, state.messages)
        ELSE IsPrefix(Persistent(round.before), state.messages)

\* a second round of each variant, run on a history that held an assistant
\* message and a tool message
C15_Witness ==
    /\ round.happened
    /\ \E i \in 1..Len(round.before) : round.before[i].role = "tool"
    /\ Len(state.messages) > Len(Persistent(round.before))
    /\ variant = "scratchpad" => ~IsPrefix(round.before, state.messages)

\* C16 (as claimed): the dispatch takes the arguments of a tool call as
\* serialized text and as an already structured payload alike: for a
\* registered tool either form gets the tool invoked and its result
\* returned as the content of the tool message
C16_BothArgumentFormsInvoke ==
    round.happened =>
        \A k \in 1..Len(RoundCalls) :
            (/\ RoundCalls[k].name \in tool_registry
             /\ RoundCalls[k].arguments \in {ArgsOk, ArgsStructured})
            => /\ RoundAnswered(k)
               /\ RoundAnswer(k).content = Str(<<ToolResult>>)


\* C17: nothing at the tool level or at the level of one response ends
\* iterate: whatever the responses (each tool call carrying an id) and
\* whatever the tools do, an invocation of iterate that has ended either
\* returned a state or raised an error that came from the backend call
C17_OnlyBackendErrorsLeaveIterate ==
    /\ exception # "RunError"
    /\ pc = "raised" => (exception = "BackendError" /\ backend = "error")
    /\ pc = "returned" => exception = "none"

\* iterate returned after a round whose tool calls named an unknown tool, had
\* malformed or structured arguments or made the tool raise
C17_Witness ==
    /\ pc = "returned"
    /\ round.happened
    /\ \E k \in 1..Len(RoundCalls) :
          /\ RoundAnswered(k)
          /\ RoundAnswer(k).content # Str(<<ToolResult>>)

NumberOf(h, role) == Cardinality({i \in 1..Len(h) : h[i].role = role})

\* C18: after every call of run of ScratchpadUnitTesterAgent the history is
\* all system and user messages in their original order, then exactly one
\* assistant message, that of the latest response, then the tool results of
\* that response's tool calls; the assistant and tool messages of earlier
\* rounds are gone, and the length is at most the number of system and user
\* messages plus 1 plus the number of tool calls of the latest turn
C18_ScratchpadHistoryShape ==
    (variant = "scratchpad" /\ round.happened) =>
        LET P == Persistent(round.before)
            h == state.messages
        IN  /\ Len(h) <= Len(P) + 1 + Len(RoundCalls)
            /\ Len(h) >= Len(P) + 1
            /\ SubSeq(h, 1, Len(P)) = P
            /\ h[Len(P) + 1].role = "assistant"
            /\ h[Len(P) + 1].content = content_or_empty(round.response.content)
            /\ h[Len(P) + 1].tool_calls = RoundCalls
            /\ NumberOf(h, "assistant") = 1
            /\ \A i \in (Len(P) + 2)..Len(h) :
                  /\ h[i].role = "tool"
                  /\ \E k \in 1..Len(RoundCalls) :
                        h[i].tool_call_id = RoundCalls[k].id

\* a later round of the scratchpad agent: the history it ran on held an
\* assistant message and a tool message, and its own response asked for a
\* tool
C18_Witness ==
    /\ variant = "scratchpad"
    /\ round.happened
    /\ NumberOf(round.before, "assistant") = 1
    /\ NumberOf(round.before, "tool") = 1
    /\ Len(RoundCalls) = 2
    /\ Len(state.messages) = Len(Persistent(round.before)) + 3

\* C19: iterate adds one to iteration after each call of run that returned
\* and changes it at no other point of an invocation; run is called only
\* when is_finished is false and iteration is below max_iterations; and,
\* when the invocation started at iteration 0, the iteration of the returned
\* state is the number of generation rounds executed, the finishing round
\* included
C19_IterationCountsRounds ==
    /\ [][(invocations' = invocations /\ state'.iteration # state.iteration)
            => (/\ state'.iteration = state.iteration + 1
                /\ gen_calls' = gen_calls + 1)]_vars
    /\ [][(gen_calls' = gen_calls + 1 /\ exception' = "none")
            => state'.iteration = state.iteration + 1]_vars
    /\ [][gen_calls' = gen_calls + 1
            => (~state.is_finished /\ state.iteration < max_iterations)]_vars
    /\ []((pc = "returned" /\ start_state.iteration = 0)
            => state.iteration = gen_calls)

\* iterate returned a finished state after two rounds
C19_Witness ==
    /\ pc = "returned"
    /\ start_state.iteration = 0
    /\ state.is_finished
    /\ round.finish
    /\ gen_calls = 2
    /\ state.iteration = 2

\* C20: each call of run makes one generation call and appends one assistant
\* message, which stands before every tool message of the round; when the
\* first tool of the round is invoked, the round's assistant message is the
\* last message of the history
C20_AssistantMessageFirst ==
    /\ [](round.happened =>
           /\ state.messages[RoundAssistantIdx].role = "assistant"
           /\ state.messages[RoundAssistantIdx].content \in
                 {round.response.content,
                  content_or_empty(round.response.content)}
           /\ \A i \in (RoundAssistantIdx + 1)..Len(state.messages) :
                 state.messages[i].role = "tool"
           /\ NumberOf(state.messages, "assistant") =
                 1 + (IF variant = "simple"
                      THEN NumberOf(round.before, "assistant") ELSE 0)
           /\ round.at_dispatch =
                 SubSeq(state.messages, 1, RoundAssistantIdx))
    /\ [][(round' # round /\ round'.happened)
            => gen_calls' = gen_calls + 1]_vars

\* a round that invoked a tool in a history that held an earlier round
C20_Witness ==
    /\ round.happened
    /\ round.invoked > 0
    /\ NumberOf(round.before, "assistant") > 0
    /\ Len(state.messages) > RoundAssistantIdx


\* C21: neither start_point nor run changes the agent's stored template:
\* after any number of start_point, run and iterate calls inital_state holds
\* the system message only, iteration 0 and is_finished false, and
\* max_iterations and the registry binding are what the constructor set
C21_TemplateNotMutated ==
    /\ inital_state =
          [messages    |-> <<Message("system", Str(<<SystemPrompt>>),
                                     "absent", <<>>)>>,
           is_finished |-> FALSE,
           iteration   |-> 0]
    /\ max_iterations \in 0..MaxIterations
    /\ tool_registry = RegisteredTools


\* C22: the schema list passed to the backend in a generation call is derived
\* from the registry as it is at that call: it names exactly the tools
\* registered then, so a tool registered (or a registry bound) between two
\* calls shows in the list of the next call, and no list of an earlier call
\* is used again
C22_SchemaListDerivedPerCall ==
    [][gen_calls' = gen_calls + 1
        => /\ Len(sent_tools') = Len(sent_tools) + 1
           /\ SubSeq(sent_tools', 1, Len(sent_tools)) = sent_tools
           /\ {t.name : t \in sent_tools'[Len(sent_tools')]} = tool_registry]_vars

\* foo was registered between the first and the second generation call: the
\* first list does not name it, the second does
C22_Witness ==
    /\ Len(sent_tools) = 2
    /\ "foo" \notin {t.name : t \in sent_tools[1]}
    /\ "foo" \in {t.name : t \in sent_tools[2]}
    /\ {t.name : t \in sent_tools[1]} = RegisteredTools


\* C23: if every backend call and every tool invocation returns or raises in
\* finite time, every invocation of iterate ends, by returning or raising,
\* for every max_iterations and every sequence of model responses, whether
\* or not a response ever signals completion
C23_IterateTerminates ==
    (pc = "running") ~> (pc \in {"returned", "raised"})

\* iterate returned after it used its whole budget on responses none of
\* which signalled completion
C23_Witness ==
    /\ pc = "returned"
    /\ ~state.is_finished
    /\ ~fired
    /\ gen_calls = MaxIterations
    /\ max_iterations = MaxIterations



\* ---------------------------------------------------- the example scripts
\* the scripts' "max_iterations = 20", scaled down
MaxScriptIterations == 2

ErrAttempted == "attempted to call tool 'repo_browser.open' which was not in request.tools"
ErrConnection == "Connection error."
Feedback == "ERROR: You tried to use a tool that doesn't exist."
ErrNoSuchTool == "Error: Tool foo not found."

ScriptCall(type, name, arguments) ==
    [type |-> type, name |-> name, arguments |-> arguments]

\* the tool calls of one assistant turn of a script: function calls with
\* arguments as text or as a dict, of a known or an unknown tool, with
\* malformed arguments, and entries whose type is not "function"
ScriptCallLists ==
    {<<ScriptCall("function", n, a)>> :
        n \in {"read_file", "foo"}, a \in {ArgsOk, ArgsStructured}}
    \cup {<<ScriptCall("function", "read_file", ArgsMalformed)>>,
          <<ScriptCall("other", "read_file", ArgsOk)>>,
          <<ScriptCall("function", "read_file", ArgsOk),
            ScriptCall("other", "read_file", ArgsOk)>>,
          <<ScriptCall("other", "read_file", ArgsOk),
            ScriptCall("function", "read_file", ArgsOk)>>}

ScriptContents ==
    {None, Str(<<Prose>>), Str(<<JsonTrueMsg>>), Str(<<JsonFalseMsg>>),
     Str(<<JsonList>>), Str(<<FenceJson, JsonTrueMsg, Fence>>)}

MkScriptCalls(shapes, first_id) ==
    [k \in 1..Len(shapes) |->
        [id |-> first_id + k - 1, type |-> shapes[k].type,
         name |-> shapes[k].name, arguments |-> shapes[k].arguments]]

\* everything chat.completions.create may do on one call of a script; the
\* content of an error is its text
ScriptReplies(first_id) ==
    {[kind |-> "ok", content |-> c, tool_calls |-> <<>>] : c \in ScriptContents}
    \cup {[kind |-> "ok", content |-> c,
           tool_calls |-> MkScriptCalls(l, first_id)] :
             c \in {None, Str(<<Prose>>)}, l \in ScriptCallLists}
    \cup {[kind |-> "tool_use_failed", content |-> None, tool_calls |-> <<>>]}
    \cup {[kind |-> "error", content |-> Str(<<t>>), tool_calls |-> <<>>] :
             t \in {ErrAttempted, ErrConnection}}

\* 00: the try block after "if content:", which catches JSONDecodeError only
script_finish(content) ==
    IF content = EmptyStr
    THEN [finished |-> FALSE, raised |-> FALSE]
    ELSE LET data == json_loads(clean_content(content))
         IN  IF data.kind = "error"
             THEN [finished |-> FALSE, raised |-> FALSE]
             ELSE IF data.kind # "dict"
             THEN [finished |-> FALSE, raised |-> TRUE]
             ELSE [finished |-> data.finished = "true", raised |-> FALSE]

\* 00: json.loads(args_raw) if args_raw is a str, else args_raw itself
script_func_inputs(args_raw) ==
    IF args_raw = ArgsStructured THEN "dict"
    ELSE json_loads_arguments(args_raw)

\* 00: the tool message of one tool call of type "function"
script_tool_message(registry, tool_call) ==
    LET func_inputs == script_func_inputs(tool_call.arguments)
    IN  IF func_inputs = "JSONDecodeError"
        THEN ToolMessage(tool_call.id, ErrJsonDecode)
        ELSE IF ~registry_get(registry, tool_call.name)
        THEN ToolMessage(tool_call.id, ErrNoSuchTool)
        ELSE IF func_inputs = "list"
        THEN ToolMessage(tool_call.id, ErrNotMapping)
        ELSE IF tool_call.arguments = ArgsBadKw
        THEN ToolMessage(tool_call.id, ErrToolRaised)
        ELSE ToolMessage(tool_call.id, ToolResult)

\* 00: the for loop over tool_calls; an entry whose type is not "function"
\* is passed over
RECURSIVE script_tool_loop(_, _)
script_tool_loop(registry, tool_calls) ==
    IF tool_calls = <<>> THEN <<>>
    ELSE IF Head(tool_calls).type # "function"
    THEN script_tool_loop(registry, Tail(tool_calls))
    ELSE <<script_tool_message(registry, Head(tool_calls))>>
         \o script_tool_loop(registry, Tail(tool_calls))

\* 00: one pass of "while True"
script_00_body(registry, messages, iteration, max, reply) ==
    LET g        == generate(reply)
        response == g.response
        appended == Append(messages,
                           Message("assistant", response.content,
                                   response.tc_key, response.tool_calls))
        finish   == script_finish(content_or_empty(response.content))
    IN  IF g.raised
        THEN [messages |-> messages, pc |-> "raised"]
        ELSE IF iteration > max
        THEN [messages |-> appended, pc |-> "stopped"]
        ELSE IF finish.raised
        THEN [messages |-> appended, pc |-> "raised"]
        ELSE IF finish.finished
        THEN [messages |-> appended, pc |-> "stopped"]
        ELSE [messages |-> appended
                           \o script_tool_loop(registry, response.tool_calls),
              pc |-> "loop"]

\* 01: one pass of "while True".  client.generate returns a dict, so
\* response.content raises AttributeError on every response; an error whose
\* text holds "attempted to call tool" is answered with a user message and
\* "continue"
script_01_body(messages, reply) ==
    LET g == generate(reply)
    IN  IF g.raised
        THEN IF reply.content = Str(<<ErrAttempted>>)
             THEN [messages |-> Append(messages,
                                       Message("user", Str(<<Feedback>>),
                                               "absent", <<>>)),
                   pc |-> "loop"]
             ELSE [messages |-> messages, pc |-> "raised"]
        ELSE [messages |-> messages, pc |-> "raised"]

\* no agent is constructed by the scripts
NoAgent ==
    /\ variant = "simple"
    /\ max_iterations = 0
    /\ tool_registry = RegisteredTools
    /\ inital_state = BaseAgentState
    /\ state = BaseAgentState
    /\ pc = "idle"
    /\ invocations = 0
    /\ next_id = 1
    /\ gen_calls = 0
    /\ dispatches = 0
    /\ sent = <<>>
    /\ start_state = BaseAgentState
    /\ round = NoRound
    /\ fired = FALSE
    /\ exception = "none"
    /\ backend = "none"
    /\ sent_tools = <<>>

\* a script up to its loop: messages = [system, user], iteration = 0
ScriptInit ==
    /\ script \in {"00", "01"}
    /\ script_max_iterations \in 1..MaxScriptIterations
    /\ script_iteration = 0
    /\ script_messages =
         <<Message("system", Str(<<SystemPrompt>>), "absent", <<>>),
           Message("user", Str(<<task_input(1)>>), "absent", <<>>)>>
    /\ script_pc = "loop"
    /\ script_gen_calls = 0
    /\ script_sent = <<>>
    /\ script_next_id = 1
    /\ NoAgent
    /\ FileToolsNotCalled

\* a pass of the loop of script 00
Script00Round ==
    /\ script = "00"
    /\ script_pc = "loop"
    /\ script_iteration <= script_max_iterations
    /\ \E reply \in ScriptReplies(script_next_id) :
         LET b == script_00_body(RegisteredTools, script_messages,
                                 script_iteration + 1, script_max_iterations,
                                 reply)
         IN  /\ script_messages' = b.messages
             /\ script_pc' = b.pc
             /\ script_next_id' = script_next_id + Len(reply.tool_calls)
    /\ script_iteration' = script_iteration + 1
    /\ script_gen_calls' = script_gen_calls + 1
    /\ script_sent' = script_messages
    /\ UNCHANGED <<script, script_max_iterations>>
    /\ UNCHANGED <<agent_vars, file_vars>>

\* a pass of the loop of script 01
Script01Round ==
    /\ script = "01"
    /\ script_pc = "loop"
    /\ script_iteration <= script_max_iterations
    /\ \E reply \in ScriptReplies(script_next_id) :
         LET b == script_01_body(script_messages, reply)
         IN  /\ script_messages' = b.messages
             /\ script_pc' = b.pc
             /\ script_next_id' = script_next_id + Len(reply.tool_calls)
    /\ script_iteration' = script_iteration + 1
    /\ script_gen_calls' = script_gen_calls + 1
    /\ script_sent' = script_messages
    /\ UNCHANGED <<script, script_max_iterations>>
    /\ UNCHANGED <<agent_vars, file_vars>>

NextScripts == Script00Round \/ Script01Round

SpecScripts == ScriptInit /\ [][NextScripts]_vars

\* C24: the loop of an example script makes at most max_iterations
\* generation calls, whatever the responses and backend errors are, repeated
\* recoverable errors included
C24_AtMostMaxGenerationCalls == script_gen_calls <= script_max_iterations


\* the index of the last assistant message of a history (0: there is none)
LastAssistant(history) ==
    LET at == {k \in 1..Len(history) : history[k].role = "assistant"}
    IN  IF at = {} THEN 0 ELSE CHOOSE k \in at : \A j \in at : j <= k

\* C25: in script 00, the history passed to a generation call after the
\* first holds exactly one tool message for every tool call of the
\* preceding assistant message, whatever the type of the tool call is
C25_EveryToolCallAnswered ==
    (script = "00" /\ script_gen_calls >= 2) =>
        LET a == LastAssistant(script_sent)
        IN  /\ a > 0
            /\ \A k \in 1..Len(script_sent[a].tool_calls) :
                 Cardinality(Answers(script_sent,
                                     script_sent[a].tool_calls[k].id)) = 1


\* an assistant message has the tool_calls field only with tool calls in it
FieldOnlyWithCalls(history) ==
    \A k \in 1..Len(history) :
        history[k].role = "assistant" =>
            (history[k].tc_key # "absent" =>
                /\ history[k].tc_key = "list"
                /\ history[k].tool_calls # <<>>)

\* no assistant message has tool_calls set to null
NoNullToolCalls(history) ==
    \A k \in 1..Len(history) :
        history[k].role = "assistant" => history[k].tc_key # "null"

\* C26: an assistant message stored in the history carries a tool_calls
\* field only when the response requested tool calls, and no assistant
\* message of a history passed to a generation call has tool_calls null
C26_ToolCallsFieldOnlyWhenRequested ==
    /\ FieldOnlyWithCalls(state.messages)
    /\ NoNullToolCalls(sent)


\* ------------------------------------------------------- builtin file tools
FileContents == {"x", "y"}

\* Path(p).parent: "." stands for the working directory
Parent(p) == IF p \in {"a/b", "a/c"} THEN "a" ELSE "."

FsEntries ==
    {[kind |-> "absent", content |-> ""], [kind |-> "dir", content |-> ""]}
    \cup {[kind |-> "file", content |-> c] : c \in FileContents}

\* the states of a file system: what is under a path is in a directory
FileSystems ==
    {f \in [Paths -> FsEntries] :
        \A p \in Paths :
            (f[p].kind # "absent" /\ Parent(p) \in Paths) =>
                f[Parent(p)].kind = "dir"}

\* Path.exists, Path.is_file, Path.is_dir
exists(f, p) == p = "." \/ f[p].kind # "absent"
is_file(f, p) == p # "." /\ f[p].kind = "file"
is_dir(f, p) == p = "." \/ f[p].kind = "dir"

Done(f) == [fs |-> f, error |-> "none"]
Fails(f, error) == [fs |-> f, error |-> error]

\* Path.mkdir(parents=True, exist_ok=exist_ok)
RECURSIVE mkdir(_, _, _)
mkdir(f, p, exist_ok) ==
    IF is_dir(f, p)
    THEN IF exist_ok THEN Done(f) ELSE Fails(f, "FileExistsError")
    ELSE IF exists(f, p)
    THEN Fails(f, "FileExistsError")
    ELSE LET above == mkdir(f, Parent(p), TRUE)
         IN  IF is_file(f, Parent(p))
             THEN Fails(f, "NotADirectoryError")
             ELSE IF above.error # "none"
             THEN above
             ELSE Done([above.fs EXCEPT ![p] = [kind |-> "dir",
                                                content |-> ""]])

\* Path.write_text(content)
write_text(f, p, content) ==
    IF is_dir(f, p) THEN Fails(f, "IsADirectoryError")
    ELSE IF is_file(f, Parent(p)) THEN Fails(f, "NotADirectoryError")
    ELSE IF ~exists(f, Parent(p)) THEN Fails(f, "FileNotFoundError")
    ELSE Done([f EXCEPT ![p] = [kind |-> "file", content |-> content]])

\* shutil.rmtree(p) of a directory: the directory and all that is under it
rmtree(f, p) ==
    Done([q \in Paths |->
            IF q = p \/ Parent(q) = p
            THEN [kind |-> "absent", content |-> ""] ELSE f[q]])

\* Path.unlink() of a file
unlink(f, p) == Done([f EXCEPT ![p] = [kind |-> "absent", content |-> ""]])

\* what a tool returns: {"success": True, "result": value} or
\* {"success": False, "error": text}; raised tells whether an exception
\* left the tool instead
Success(f, value) ==
    [fs |-> f, success |-> TRUE, key |-> "result", value |-> value,
     raised |-> FALSE]

Failure(f, text) ==
    [fs |-> f, success |-> FALSE, key |-> "error", value |-> text,
     raised |-> FALSE]

\* try: ... return {"success": True, "result": value}
\* except Exception as e: return {"success": False, "error": str(e)}
try_except(outcome, value) ==
    IF outcome.error = "none" THEN Success(outcome.fs, value)
    ELSE Failure(outcome.fs, outcome.error)

read_file(f, p) ==
    IF ~is_file(f, p) THEN Failure(f, "File not found")
    ELSE Success(f, f[p].content)

write_file(f, p, content) ==
    LET made == IF ~exists(f, Parent(p)) THEN mkdir(f, Parent(p), TRUE)
                ELSE Done(f)
    IN  IF made.error # "none" THEN Failure(made.fs, made.error)
        ELSE try_except(write_text(made.fs, p, content), "True")

\* create_folder without the test of p.exists(), and with exist_ok=True
create_folder_exist_ok(f, p) == try_except(mkdir(f, p, TRUE), "True")

create_folder(f, p) ==
    IF exists(f, p) THEN Failure(f, "Folder already exists")
    ELSE try_except(mkdir(f, p, FALSE), "True")

remove_folder(f, p) ==
    IF ~is_dir(f, p) THEN Failure(f, "Folder not found")
    ELSE try_except(rmtree(f, p), "True")

remove_file(f, p) ==
    IF ~is_file(f, p) THEN Failure(f, "File not found")
    ELSE try_except(unlink(f, p), "True")

\* the effect of a call on the file system, and the record of the call
Called(tool, p, content, r) ==
    /\ fs' = r.fs
    /\ last_call' = [tool |-> tool, path |-> p, content |-> content,
                     before |-> fs, success |-> r.success,
                     raised |-> r.raised, key |-> r.key, value |-> r.value]
    /\ UNCHANGED <<agent_vars, script_vars>>

ReadFile == \E p \in Paths : Called("read_file", p, "", read_file(fs, p))

WriteFile ==
    \E p \in Paths, content \in FileContents :
        Called("write_file", p, content, write_file(fs, p, content))

CreateFolder ==
    \E p \in Paths : Called("create_folder", p, "", create_folder(fs, p))

RemoveFolder ==
    \E p \in Paths : Called("remove_folder", p, "", remove_folder(fs, p))

RemoveFile ==
    \E p \in Paths : Called("remove_file", p, "", remove_file(fs, p))

\* the tools are called on a file system in any state
FilesInit ==
    /\ fs \in FileSystems
    /\ last_call = NoCall
    /\ NoAgent
    /\ ScriptsNotRun

NextFiles == ReadFile \/ WriteFile \/ CreateFolder \/ RemoveFolder \/ RemoveFile

SpecFiles == FilesInit /\ [][NextFiles]_vars

\* the call did not meet the precondition of the tool
PreconditionViolated(call) ==
    LET kind == call.before[call.path].kind
    IN  \/ call.tool \in {"read_file", "remove_file"} /\ kind # "file"
        \/ call.tool = "remove_folder" /\ kind # "dir"
        \/ call.tool = "create_folder" /\ kind # "absent"

\* C27: a file tool returns, it never raises; called on a path that
\* violates its precondition (read_file, remove_file: not a file;
\* remove_folder: not a directory; create_folder: something is there) it
\* returns {success: false, error} and leaves the file system as it was;
\* when it succeeds it returns {success: true, result}
C27_PreconditionReportedAsValue ==
    last_call.tool # "none" =>
        /\ ~last_call.raised
        /\ PreconditionViolated(last_call) =>
              /\ ~last_call.success
              /\ last_call.key = "error"
              /\ fs = last_call.before
        /\ last_call.success <=> last_call.key = "result"

\* create_folder was called on a directory that holds a file
C27_Witness ==
    /\ last_call.tool = "create_folder"
    /\ last_call.path = "a"
    /\ last_call.before["a"].kind = "dir"
    /\ last_call.before["a/b"].kind = "file"
    /\ ~last_call.success
    /\ fs = last_call.before

====
